---- MODULE Spec2Model ----
(***************************************************************************)
(* Model of linea/core.py: the quality mask of a CheopsLightCurve, the     *)
(* single-visit design-matrix builders, the phase folding, and the joint   *)
(* (multi-visit) design-matrix assembly and regression inputs of a         *)
(* JointLightCurve.                                                        *)
(*                                                                         *)
(* Numbers.  Sample values are integers.  A matrix entry is a rational     *)
(* <<num, den>>; den = 0 is the IEEE result of a division by zero          *)
(* (<<0, 0>> is NaN).  Times are integer ticks; a phase is a rational      *)
(* <<num, den>> with den > 0.  Roll angles are multiples of 90 degrees, on *)
(* which cos and sin are tabulated.                                        *)
(***************************************************************************)
EXTENDS Integers, Sequences, FiniteSets, TLC

VARIABLES lc, ret, light_curves, jret

vars == <<lc, ret, light_curves, jret>>

\* ------------------------------------------------------------- bounds
NSamples == 3
MaxHarmonics == 1
MaxExtra == 1
MaxVisits == 3

\* ------------------------------------------------------------ helpers
Range(s) == {s[i] : i \in DOMAIN s}

Abs(x) == IF x < 0 THEN -x ELSE x

SetMin(S) == CHOOSE x \in S : \A y \in S : x <= y

SetMax(S) == CHOOSE x \in S : \A y \in S : y <= x

RECURSIVE SumSeq(_)
SumSeq(s) == IF s = <<>> THEN 0 ELSE s[1] + SumSeq(Tail(s))

RECURSIVE Flatten(_)
Flatten(ss) == IF ss = <<>> THEN <<>> ELSE ss[1] \o Flatten(Tail(ss))

\* numpy: ~b on a boolean vector
Not(b) == [i \in 1..Len(b) |-> ~b[i]]

\* numpy: a |= b on boolean vectors of one length
Or(a, b) == [i \in 1..Len(a) |-> a[i] \/ b[i]]

\* numpy: np.where(b)[0], the increasing positions at which b is True
RECURSIVE Where(_)
Where(b) ==
  IF b = <<>> THEN <<>>
  ELSE LET n == Len(b)
           r == Where(SubSeq(b, 1, n - 1))
       IN IF b[n] THEN Append(r, n) ELSE r

\* numpy: a[b] with a boolean vector b (rows of a at the True positions, in order)
BoolIndex(a, b) ==
  LET w == Where(b) IN [j \in 1..Len(w) |-> a[w[j]]]

\* numpy: np.count_nonzero(b)
CountNonzero(b) == Len(Where(b))

\* numpy: a[b] |= c  (c has one entry per True position of b)
ScatterOr(a, b, c) ==
  [i \in 1..Len(a) |->
     IF b[i] THEN a[i] \/ c[Cardinality({k \in 1..i : b[k]})] ELSE a[i]]

\* ------------------------------------------------------ light curves
Const(n) == [i \in 1..n |-> 1]

Ramp(n) == [i \in 1..n |-> i]

Spike(n) == [i \in 1..n |-> IF i = n THEN 3 ELSE 0]

Profiles(n) == {Const(n), Ramp(n), Spike(n)}

RollChoices(n) == {[i \in 1..n |-> 0], [i \in 1..n |-> 90 * (i - 1)]}

\* the attribute sets a record array can give a light curve (core.py attrs)
DRPCentroid == {"centroid_x", "centroid_y", "background"}

PIPECentroid == {"xc", "yc", "bg"}

AttrChoices ==
  { DRPCentroid,
    DRPCentroid \cup {"conta_lc", "smearing_lc"},
    PIPECentroid \cup {"u1", "u2"},
    DRPCentroid \cup {"conta_lc", "smearing_lc", "u1", "u2"},
    PIPECentroid \cup {"conta_lc"} }

Always == {"bjd_time", "flux", "fluxerr", "roll_angle"}

\* the vector stored under each attribute name
VectorOf(name, n, roll, x, y, b) ==
  CASE name = "bjd_time" -> [i \in 1..n |-> i]
    [] name = "flux" -> [i \in 1..n |-> 10 + i]
    [] name = "fluxerr" -> [i \in 1..n |-> 1]
    [] name = "roll_angle" -> roll
    [] name \in {"centroid_x", "xc"} -> x
    [] name \in {"centroid_y", "yc"} -> y
    [] name \in {"background", "bg"} -> b
    [] name = "conta_lc" -> [i \in 1..n |-> 2 * i]
    [] name = "smearing_lc" -> [i \in 1..n |-> 5 - i]
    [] name = "u1" -> [i \in 1..n |-> 3 * i]
    [] name = "u2" -> [i \in 1..n |-> 7 - i]

\* extra_basis_vectors: None (<<>>) or a K x N array
ExtraChoices(n) ==
  {<<>>} \cup {[k \in 1..K |-> [i \in 1..n |-> 20 * k + i]] : K \in 1..MaxExtra}

hasattr(self, name) == name \in DOMAIN self.vec

\* a flux sample that is not a number (a flux is a positive count otherwise)
NaN == -1

\* np.isnan(v)
isnan(v) == [i \in 1..Len(v) |-> v[i] = NaN]

\* v.astype(bool)
astype_bool(v) == [i \in 1..Len(v) |-> v[i] # 0]

\* CheopsLightCurve.__init__, the default mask (flux is always a column of
\* the record arrays here): NaN fluxes, and the status and event flags when
\* the light curve has both vectors
default_mask(vec) ==
  IF "status" \in DOMAIN vec /\ "event" \in DOMAIN vec
  THEN [i \in 1..Len(vec.flux) |->
          isnan(vec.flux)[i] \/ astype_bool(vec.status)[i] \/ astype_bool(vec.event)[i]]
  ELSE isnan(vec.flux)

\* CheopsLightCurve.__init__ on a record array: its columns become the
\* attributes, with the extra basis vectors and the default mask
__init__(record_array, extra_basis_vectors) ==
  [ vec |-> record_array,
    extra_basis_vectors |-> extra_basis_vectors,
    mask |-> default_mask(record_array) ]

\* the light curve of the record array with the columns `names`
CheopsLightCurve(names, n, roll, x, y, b, extra) ==
  __init__([a \in names \cup Always |-> VectorOf(a, n, roll, x, y, b)], extra)

\* ------------------------------------------------------------ results
\* a sequence as an explicit tuple (the same value, computed once)
Tuple(s) == SubSeq(s, 1, Len(s))

\* an array of shape (rows, cols); data is the sequence of its rows
Matrix(r, c, d) ==
  [shape |-> <<r, c>>, data |-> Tuple([i \in 1..Len(d) |-> Tuple(d[i])])]

NoMatrix == Matrix(0, 0, <<>>)

\* what the last call was given and what it produced or raised
NoRet ==
  [ op |-> "none", status |-> "ok",
    norm |-> FALSE, harmonics |-> 0, sigma2 |-> 0, bgmin |-> 0,
    per |-> 1, t0 |-> 0, t14 |-> <<0, 1>>, clipped |-> <<>>, clip |-> <<>>,
    t_fine |-> <<>>, X |-> NoMatrix, names |-> <<>>, phases |-> <<>>, phases2 |-> <<>> ]

Call(op) == [NoRet EXCEPT !.op = op]

Raise(r, error) == [r EXCEPT !.status = error]

\* ------------------------------------------------------ phase folding
Half == <<1, 2>>

PlotCut == <<19, 20>>

\* p > q on rationals with positive denominators
Gt(p, q) == p[1] * q[2] > q[1] * p[2]

\* x % 1 on the rational x = num/den: Python's floor modulo
Mod1Trunc(x) ==
  <<IF x[1] >= 0 THEN x[1] % x[2] ELSE -((-x[1]) % x[2]), x[2]>>

Mod1(x) == <<x[1] - x[2] * (x[1] \div x[2]), x[2]>>

\* (a % per) / per: Python's floor modulo, then the division
ModPer(a, per) == <<a % per, per>>

\* phs[phs > cut] -= 1
RemapGe(p, cut) == IF ~Gt(cut, p) THEN <<p[1] - p[2], p[2]>> ELSE p

Remap(p, cut) == IF Gt(p, cut) THEN <<p[1] - p[2], p[2]>> ELSE p

\* np.abs(phs * per) >= t14; every comparison with NaN (t14[2] = 0) is False
AbsGe(phs, per, t14) ==
  /\ t14[2] # 0
  /\ Abs(phs[1]) * per * t14[2] >= t14[1] * phs[2]

\* --------------------------------------------------- masking operations
\* the k-th smallest element of a vector (the k-th element of np.sort)
KthSmallest(v, k) ==
  CHOOSE x \in Range(v) :
    /\ Cardinality({i \in DOMAIN v : v[i] < x}) < k
    /\ k <= Cardinality({i \in DOMAIN v : v[i] <= x})

\* twice np.median(v): the middle element, or the mean of the two middle ones
Median2(v) ==
  LET n == Len(v)
  IN IF n % 2 = 1 THEN 2 * KthSmallest(v, (n + 1) \div 2)
     ELSE KthSmallest(v, n \div 2) + KthSmallest(v, n \div 2 + 1)

\* 2 * (v[i] - np.median(v))
Dev2(v) ==
  LET m == Median2(v) IN [i \in 1..Len(v) |-> 2 * v[i] - m]

\* four times the median absolute deviation; astropy's mad_std is the MAD
\* times 1.4826 (taken as 37/25 below)
Mad4(v) ==
  LET d == Dev2(v) IN Median2([i \in 1..Len(v) |-> Abs(d[i])])

\* sigma * min([x_std, y_std]) < np.hypot(x - x_mean, y - y_mean), with
\* sigma = sigma2 / 2 > 0, both sides squared
CentroidOutliers(x, y, sigma2) ==
  LET x_std == Mad4(x)
      y_std == Mad4(y)
      lhs == sigma2 * 37 * (IF x_std < y_std THEN x_std ELSE y_std)
      dx == Dev2(x)
      dy == Dev2(y)
  IN [i \in 1..Len(x) |-> lhs * lhs < 10000 * (dx[i] * dx[i] + dy[i] * dy[i])]

\* CheopsLightCurve.sigma_clip_centroid
sigma_clip_centroid(self, sigma2) ==
  LET call == [Call("sigma_clip_centroid") EXCEPT !.sigma2 = sigma2]
  IN IF ~(hasattr(self, "centroid_x") /\ hasattr(self, "centroid_y"))
     THEN <<self, Raise(call, "AttributeError")>>
     ELSE LET outliers ==
                CentroidOutliers(self.vec.centroid_x, self.vec.centroid_y, sigma2)
          IN <<[self EXCEPT !.mask = Or(self.mask, outliers)], call>>

\* CheopsLightCurve.sigma_clip_flux; clipped is the data handed to astropy's
\* SigmaClip, flux[~mask], and clip is the mask it returns for that data
sigma_clip_flux_prefix(self, clip) ==
  <<[self EXCEPT !.mask = [i \in 1..Len(self.mask) |->
                             self.mask[i] \/ (i <= Len(clip) /\ clip[i])]],
    [Call("sigma_clip_flux") EXCEPT
       !.clipped = Tuple(BoolIndex(self.vec.flux, Not(self.mask))), !.clip = clip]>>

sigma_clip_flux(self, clip) ==
  <<[self EXCEPT !.mask = ScatterOr(self.mask, Not(self.mask), clip)],
    [Call("sigma_clip_flux") EXCEPT
       !.clipped = Tuple(BoolIndex(self.vec.flux, Not(self.mask))), !.clip = clip]>>

\* CheopsLightCurve.high_bg_clip
high_bg_clip_assign(self, bgmin) ==
  LET call == [Call("high_bg_clip") EXCEPT !.bgmin = bgmin]
  IN IF ~hasattr(self, "bg")
     THEN <<self, Raise(call, "AttributeError")>>
     ELSE LET msk == [i \in 1..Len(self.vec.bg) |-> self.vec.bg[i] > bgmin]
          IN <<[self EXCEPT !.mask = msk], call>>

high_bg_clip(self, bgmin) ==
  LET call == [Call("high_bg_clip") EXCEPT !.bgmin = bgmin]
  IN IF ~hasattr(self, "bg")
     THEN <<self, Raise(call, "AttributeError")>>
     ELSE LET msk == [i \in 1..Len(self.vec.bg) |-> self.vec.bg[i] > bgmin]
          IN <<[self EXCEPT !.mask = Or(self.mask, msk)], call>>

\* the folded phases of mask_planetary_signal about the transit (t01 = t0)
Phs1(self, per, t0) ==
  [i \in 1..Len(self.vec.bjd_time) |->
     Remap(Mod1(<<self.vec.bjd_time[i] - t0, per>>), Half)]

\* ... and about the eclipse (t02 = t0 + per/2)
Phs2(self, per, t0) ==
  [i \in 1..Len(self.vec.bjd_time) |->
     Remap(Mod1(<<2 * (self.vec.bjd_time[i] - t0) - per, 2 * per>>), Half)]

\* msk2 = (np.abs(phs1*per1) >= t14) & (np.abs(phs2*per1) >= t14)
Msk2(self, per, t0, t14) ==
  LET phs1 == Phs1(self, per, t0)
      phs2 == Phs2(self, per, t0)
  IN [i \in 1..Len(self.vec.bjd_time) |->
        AbsGe(phs1[i], per, t14) /\ AbsGe(phs2[i], per, t14)]

\* CheopsLightCurve.mask_planetary_signal; t14 is the duration computed from
\* the planet's a, inc and rp (NaN when the arcsin or sqrt argument is invalid)
mask_planetary_signal_keep(self, per, t0, t14) ==
  <<[self EXCEPT !.mask = Or(self.mask, Msk2(self, per, t0, t14))],
    [Call("mask_planetary_signal") EXCEPT
       !.per = per, !.t0 = t0, !.t14 = t14,
       !.phases = Phs1(self, per, t0), !.phases2 = Phs2(self, per, t0)]>>

mask_planetary_signal(self, per, t0, t14) ==
  <<[self EXCEPT !.mask = Or(self.mask, Not(Msk2(self, per, t0, t14)))],
    [Call("mask_planetary_signal") EXCEPT
       !.per = per, !.t0 = t0, !.t14 = t14,
       !.phases = Phs1(self, per, t0), !.phases2 = Phs2(self, per, t0)]>>

\* the phases of plot_phase_curve: of the unmasked samples and of t_fine
plot_phase_curve(self, per, t0, t0_offset, t_fine) ==
  LET t == BoolIndex(self.vec.bjd_time, Not(self.mask))
  IN <<self,
       [Call("plot_phase_curve") EXCEPT
          !.per = per, !.t0 = t0 + t0_offset, !.t_fine = t_fine,
          !.phases = [j \in 1..Len(t) |->
                        Remap(ModPer(t[j] - t0 - t0_offset, per), PlotCut)],
          !.phases2 = [j \in 1..Len(t_fine) |->
                        Remap(ModPer(t_fine[j] - t0 - t0_offset, per), PlotCut)]]>>

\* ------------------------------------------------------ design matrices
\* np.cos and np.sin of an angle in degrees (a multiple of 90)
CosDeg(d) ==
  CASE d % 360 = 0 -> 1 [] d % 360 = 90 -> 0 [] d % 360 = 180 -> -1 [] d % 360 = 270 -> 0

SinDeg(d) ==
  CASE d % 360 = 0 -> 0 [] d % 360 = 90 -> 1 [] d % 360 = 180 -> 0 [] d % 360 = 270 -> -1

\* np.cos(h * np.radians(roll)), np.sin(h * np.radians(roll))
Cos(roll, h) == [i \in 1..Len(roll) |-> CosDeg(h * roll[i])]

Sin(roll, h) == [i \in 1..Len(roll) |-> SinDeg(h * roll[i])]

Times(x, y) == [i \in 1..Len(x) |-> x[i] * y[i]]

\* a vector of numbers as matrix entries
Raw(v) == [i \in 1..Len(v) |-> <<v[i], 1>>]

\* np.ones(n)
Ones(n) == [i \in 1..n |-> <<1, 1>>]

\* normalize: (vector - vector.min()) / vector.ptp() - 0.5, as the rational
\* (2 (v - min) - ptp) / (2 ptp); a zero range gives 0/0 = NaN, with no error
normalize(vector) ==
  LET lo == SetMin(Range(vector))
      ptp == SetMax(Range(vector)) - lo
  IN [i \in 1..Len(vector) |-> <<2 * (vector[i] - lo) - ptp, 2 * ptp>>]

\* normalize(v) if norm else v
Col(v, norm) == Tuple(IF norm THEN normalize(v) ELSE Raw(v))

\* np.vstack of vectors and of 2-D arrays is defined when all row lengths agree
CanStack(rows) == \A i \in 1..Len(rows) : Len(rows[i]) = Len(rows[1])

\* X.T of the array whose rows are `rows`, each of length n
Transpose(rows, n) == [i \in 1..n |-> [k \in 1..Len(rows) |-> rows[k][i]]]

\* X[~self.mask] on the array of shape (n, c) with rows `data`
MaskedRowsKeepMasked(data, n, c, mask) ==
  Matrix(CountNonzero(mask), c, BoolIndex(data, mask))

MaskedRows(data, n, c, mask) ==
  Matrix(CountNonzero(Not(mask)), c, BoolIndex(data, Not(mask)))

\* the stacked vectors, then the extra basis vectors, transposed and masked
Finish(self, call, cols, names) ==
  LET n == Len(self.vec.bjd_time)
      all == cols \o [k \in 1..Len(self.extra_basis_vectors) |->
                        Raw(self.extra_basis_vectors[k])]
  IN IF ~CanStack(all) THEN Raise(call, "ValueError")
     ELSE IF Len(self.mask) # n THEN Raise(call, "IndexError")
     ELSE [call EXCEPT
             !.X = MaskedRows(Transpose(all, n), n, Len(all), self.mask),
             !.names = names]

\* CheopsLightCurve.design_matrix
design_matrix(self, norm) ==
  LET call == [Call("design_matrix") EXCEPT !.norm = norm]
      roll == self.vec.roll_angle
      cols == << Col(Cos(roll, 1), norm), Col(Sin(roll, 1), norm),
                 Ones(Len(self.vec.bjd_time)) >>
  IN <<self, Finish(self, call, cols, <<>>)>>

\* the two columns of roll-angle harmonic h (i + 1 in the loop): sine, then cosine
HarmonicCosFirst(roll, h, norm) == << Col(Cos(roll, h), norm), Col(Sin(roll, h), norm) >>

Harmonic(roll, h, norm) == << Col(Sin(roll, h), norm), Col(Cos(roll, h), norm) >>

\* CheopsLightCurve.design_matrix_all
design_matrix_all(self, harmonics, norm) ==
  LET call == [Call("design_matrix_all") EXCEPT !.norm = norm, !.harmonics = harmonics]
      n == Len(self.vec.bjd_time)
      roll == self.vec.roll_angle
      harm == Flatten([h \in 1..harmonics |-> Harmonic(roll, h, norm)])
      harmNames == Flatten([h \in 1..harmonics |->
                              << "sin" \o ToString(h), "cos" \o ToString(h) >>])
      \* try: centroid_x, centroid_y, background; except: xc, yc, bg
      drp == DRPCentroid \subseteq DOMAIN self.vec
      pipe == PIPECentroid \subseteq DOMAIN self.vec
      xc == IF drp THEN self.vec.centroid_x ELSE self.vec.xc
      yc == IF drp THEN self.vec.centroid_y ELSE self.vec.yc
      bg == IF drp THEN self.vec.background ELSE self.vec.bg
      base == << Ones(n) >> \o harm \o
              << Col(xc, norm), Col(yc, norm), Col(Times(xc, xc), norm),
                 Col(Times(yc, yc), norm), Col(Times(xc, yc), norm), Col(bg, norm) >>
      baseNames == << "ones" >> \o harmNames \o << "xc", "yc", "x2", "y2", "xy", "bg" >>
      \* try: the contamination and smearing columns; except: pass
      conta == << Col(self.vec.conta_lc, norm), Col(self.vec.smearing_lc, norm) >>
      contaOK == /\ {"conta_lc", "smearing_lc"} \subseteq DOMAIN self.vec
                 /\ CanStack(base \o conta)
      cols1 == IF contaOK THEN base \o conta ELSE base
      names1 == IF contaOK
                THEN baseNames \o << "contamination", "smearing" >>
                ELSE baseNames
      \* try: the u1 and u2 columns; except: pass
      us == << Col(self.vec.u1, norm), Col(self.vec.u2, norm) >>
      usOK == /\ {"u1", "u2"} \subseteq DOMAIN self.vec
              /\ CanStack(cols1 \o us)
      cols2 == IF usOK THEN cols1 \o us ELSE cols1
      names2 == IF usOK THEN names1 \o << "u1", "u2" >> ELSE names1
      extraNames == [k \in 1..Len(self.extra_basis_vectors) |-> "extra" \o ToString(k)]
  IN IF ~drp /\ ~pipe THEN <<self, Raise(call, "AttributeError")>>
     ELSE IF ~CanStack(base) THEN <<self, Raise(call, "ValueError")>>
     ELSE <<self, Finish(self, call, cols2, names2 \o extraNames)>>

\* ------------------------------------------------- joint light curves
\* np.zeros((r, c))
Zeros(r, c) == Matrix(r, c, [i \in 1..r |-> [j \in 1..c |-> <<0, 1>>]])

\* np.vstack of 2-D arrays is defined when their column counts agree
CanVStack(ms) == \A i \in 1..Len(ms) : ms[i].shape[2] = ms[1].shape[2]

VStack(ms) ==
  Matrix(SumSeq([i \in 1..Len(ms) |-> ms[i].shape[1]]), ms[1].shape[2],
         Flatten([i \in 1..Len(ms) |-> ms[i].data]))

\* np.hstack of 2-D arrays is defined when their row counts agree
CanHStack(ms) == \A i \in 1..Len(ms) : ms[i].shape[1] = ms[1].shape[1]

HStack(ms) ==
  Matrix(ms[1].shape[1], SumSeq([i \in 1..Len(ms) |-> ms[i].shape[2]]),
         [r \in 1..ms[1].shape[1] |-> Flatten([i \in 1..Len(ms) |-> ms[i].data[r]])])

\* JointLightCurve._pad_shapes
_pad_shapes(self) == [i \in 1..Len(self) |-> CountNonzero(Not(self[i].mask))]

NoJoint ==
  [ op |-> "none", status |-> "ok", norm |-> FALSE, given |-> FALSE,
    design_matrices |-> <<>>, X |-> NoMatrix, flux |-> <<>>, fluxerr |-> <<>> ]

\* [prepad, design_matrices[i], postpad] without the pads that are None
SegmentsNoPrepad(design_matrices, shapes, ndim, i) ==
  << design_matrices[i] >> \o
  (IF i < Len(shapes)
   THEN << Zeros(SumSeq(SubSeq(shapes, i + 1, Len(shapes))), ndim) >> ELSE <<>>)

SegmentsOwnWidth(design_matrices, shapes, ndim, i) ==
  LET c == design_matrices[i].shape[2]
  IN (IF i > 1 THEN << Zeros(SumSeq(SubSeq(shapes, 1, i - 1)), c) >> ELSE <<>>) \o
     << design_matrices[i] >> \o
     (IF i < Len(shapes)
      THEN << Zeros(SumSeq(SubSeq(shapes, i + 1, Len(shapes))), c) >> ELSE <<>>)

Segments(design_matrices, shapes, ndim, i) ==
  (IF i > 1 THEN << Zeros(SumSeq(SubSeq(shapes, 1, i - 1)), ndim) >> ELSE <<>>) \o
  << design_matrices[i] >> \o
  (IF i < Len(shapes)
   THEN << Zeros(SumSeq(SubSeq(shapes, i + 1, Len(shapes))), ndim) >> ELSE <<>>)

\* JointLightCurve.combined_design_matrix on the list of design matrices
Combine(self, call, design_matrices) ==
  LET shapes == _pad_shapes(self)
      ndim == design_matrices[1].shape[2]
      segments == Tuple([i \in 1..Len(design_matrices) |->
                           Segments(design_matrices, shapes, ndim, i)])
  IN IF \E i \in 1..Len(design_matrices) : ~CanVStack(segments[i])
     THEN Raise(call, "ValueError")
     ELSE LET Xs_padded == Tuple([i \in 1..Len(design_matrices) |->
                                    VStack(segments[i])])
          IN IF ~CanHStack(Xs_padded) THEN Raise(call, "ValueError")
             ELSE [call EXCEPT !.X = HStack(Xs_padded)]

\* JointLightCurve.combined_design_matrix(design_matrices=None, norm)
combined_design_matrix_default(self, norm) ==
  LET call == [NoJoint EXCEPT !.op = "combined_design_matrix", !.norm = norm]
      rets == Tuple([i \in 1..Len(self) |-> design_matrix(self[i], norm)[2]])
      dms == Tuple([i \in 1..Len(self) |-> rets[i].X])
  IN IF \E i \in 1..Len(self) : rets[i].status # "ok"
     THEN Raise(call, "ValueError")
     ELSE Combine(self, [call EXCEPT !.design_matrices = dms], dms)

\* JointLightCurve.combined_design_matrix(design_matrices)
combined_design_matrix(self, design_matrices) ==
  Combine(self,
          [NoJoint EXCEPT !.op = "combined_design_matrix", !.given = TRUE,
                          !.design_matrices = design_matrices],
          design_matrices)

\* JointLightCurve.regress: the target and uncertainty handed to linreg
regress_masked(self, X) ==
  LET flux == Flatten([i \in 1..Len(self) |-> self[i].vec.flux])
      fluxerr == Flatten([i \in 1..Len(self) |-> self[i].vec.fluxerr])
      mask == Flatten([i \in 1..Len(self) |-> self[i].mask])
  IN [NoJoint EXCEPT !.op = "regress", !.X = X,
                     !.flux = BoolIndex(flux, mask),
                     !.fluxerr = BoolIndex(fluxerr, mask)]

regress(self, X) ==
  LET flux == Flatten([i \in 1..Len(self) |-> self[i].vec.flux])
      fluxerr == Flatten([i \in 1..Len(self) |-> self[i].vec.fluxerr])
      mask == Flatten([i \in 1..Len(self) |-> self[i].mask])
  IN [NoJoint EXCEPT !.op = "regress", !.X = X,
                     !.flux = BoolIndex(flux, Not(mask)),
                     !.fluxerr = BoolIndex(fluxerr, Not(mask))]

\* ------------------------------------------- one light curve: the steps
SigmaChoices == {1, 7}

BgminChoices == {2, 300}

PeriodChoices == {4}

PlotPeriodChoices == {4, 40}

EpochChoices == {0, 5}

PlotEpochChoices == {4}

T14Choices == {<<0, 1>>, <<1, 1>>, <<0, 0>>}

TFineChoices == {<<0, 21>>}

Init ==
  /\ \E names \in AttrChoices, roll \in RollChoices(NSamples),
        x \in Profiles(NSamples), y \in {Ramp(NSamples)}, b \in {Ramp(NSamples)},
        extra \in ExtraChoices(NSamples) :
       lc = CheopsLightCurve(names, NSamples, roll, x, y, b, extra)
  /\ ret = NoRet
  /\ light_curves = <<>>
  /\ jret = NoJoint

\* a call on the light curve: its effect on the object and what it returned
Step(r) ==
  /\ lc' = r[1]
  /\ ret' = r[2]
  /\ UNCHANGED <<light_curves, jret>>

SigmaClipCentroid == \E sigma2 \in SigmaChoices : Step(sigma_clip_centroid(lc, sigma2))

SigmaClipFlux ==
  \E clip \in [1..CountNonzero(Not(lc.mask)) -> BOOLEAN] : Step(sigma_clip_flux(lc, clip))

HighBgClip == \E bgmin \in BgminChoices : Step(high_bg_clip(lc, bgmin))

MaskPlanetarySignal ==
  \E per \in PeriodChoices, t0 \in EpochChoices, t14 \in T14Choices :
    Step(mask_planetary_signal(lc, per, t0, t14))

PlotPhaseCurve ==
  \E per \in PlotPeriodChoices, t0 \in PlotEpochChoices, t_fine \in TFineChoices :
    Step(plot_phase_curve(lc, per, t0, 0, t_fine))

DesignMatrix == \E norm \in BOOLEAN : Step(design_matrix(lc, norm))

DesignMatrixAll ==
  \E harmonics \in 0..MaxHarmonics, norm \in BOOLEAN :
    Step(design_matrix_all(lc, harmonics, norm))

Next ==
  \/ SigmaClipCentroid
  \/ SigmaClipFlux
  \/ HighBgClip
  \/ MaskPlanetarySignal
  \/ PlotPhaseCurve
  \/ DesignMatrix
  \/ DesignMatrixAll

Spec == Init /\ [][Next]_vars

\* --------------------------------------- several light curves: the steps
\* the visit lists of n visits: visits 1..n in order, and every rotation of it
VisitOrders(n) == {[i \in 1..n |-> ((i + k - 1) % n) + 1] : k \in 1..n}

ColumnChoices == {1, 2}

\* the column counts of a caller's matrices: all equal, or one visit's differs
ColumnPatterns(n) ==
  {[i \in 1..n |-> c] : c \in ColumnChoices} \cup
  {[i \in 1..n |-> IF i = k THEN 2 ELSE 1] : k \in 1..n}

\* visit `id`: two samples for an odd id and one for an even id, with its own
\* flux values
Visit(id) ==
  LET n == IF id % 2 = 1 THEN 2 ELSE 1
      base == CheopsLightCurve(DRPCentroid, n, [i \in 1..n |-> 90 * (i - 1)],
                               Ramp(n), Ramp(n), Ramp(n), <<>>)
  IN [base EXCEPT !.vec.flux = [i \in 1..n |-> 100 * id + i],
                  !.vec.fluxerr = [i \in 1..n |-> id]]

\* a caller's design matrix for one visit: one row per unmasked sample, c
\* columns, each entry naming its sample (by its flux) and its column
GivenMatrix(self, c) ==
  LET f == BoolIndex(self.vec.flux, Not(self.mask))
  IN Matrix(Len(f), c, [j \in 1..Len(f) |-> [k \in 1..c |-> <<10 * f[j] + k, 1>>]])

GivenMatrices(lcs, cols) ==
  Tuple([i \in 1..Len(lcs) |-> GivenMatrix(lcs[i], cols[i])])

InitJoint ==
  /\ \E n \in 1..MaxVisits : \E ids \in VisitOrders(n) :
       light_curves = [i \in 1..n |-> Visit(ids[i])]
  /\ jret = NoJoint
  /\ lc = Visit(1)
  /\ ret = NoRet

JointStep(r) ==
  /\ jret' = r
  /\ UNCHANGED <<lc, ret, light_curves>>

\* a masking call on one of the visits
VisitSigmaClipFlux ==
  \E i \in 1..Len(light_curves) :
    \E clip \in [1..CountNonzero(Not(light_curves[i].mask)) -> BOOLEAN] :
      /\ light_curves' =
           [light_curves EXCEPT ![i] = sigma_clip_flux(light_curves[i], clip)[1]]
      /\ jret' = [NoJoint EXCEPT !.op = "sigma_clip_flux"]
      /\ UNCHANGED <<lc, ret>>

CombinedDesignMatrixDefault ==
  \E norm \in BOOLEAN : JointStep(combined_design_matrix_default(light_curves, norm))

CombinedDesignMatrix ==
  \E cols \in ColumnPatterns(Len(light_curves)) :
    JointStep(combined_design_matrix(light_curves, GivenMatrices(light_curves, cols)))

\* regress(X) on the matrix the combined_design_matrix call before it returned
JointRegress ==
  /\ jret.op = "combined_design_matrix"
  /\ jret.status = "ok"
  /\ LET r == regress(light_curves, jret.X)
     IN JointStep([jret EXCEPT !.op = "regress",
                               !.flux = r.flux, !.fluxerr = r.fluxerr])

NextJoint ==
  \/ VisitSigmaClipFlux
  \/ CombinedDesignMatrixDefault
  \/ CombinedDesignMatrix
  \/ JointRegress

SpecJoint == InitJoint /\ [][NextJoint]_vars

\* ---------------------------------- record arrays and their attributes
\* the flux column: every sample a number, or the first or the last one NaN
FluxChoices(n) ==
  { [i \in 1..n |-> IF i \in nan THEN NaN ELSE 10 + i] : nan \in {{}, {1}, {n}} }

\* a status or event column: no flag set, or the flag of the second sample
FlagVectors(n) == { [i \in 1..n |-> 0], [i \in 1..n |-> IF i = 2 THEN 4 ELSE 0] }

\* the status and event columns of a record array: both, one or neither
FlagChoices(n) ==
  UNION { [F -> FlagVectors(n)] : F \in SUBSET {"status", "event"} }

\* the record array with the columns `names`, a flux column and flag columns
RecordArray(names, n, flux, flags) ==
  [a \in names \cup Always \cup DOMAIN flags |->
     IF a \in DOMAIN flags THEN flags[a]
     ELSE IF a = "flux" THEN flux
     ELSE VectorOf(a, n, [i \in 1..n |-> 90 * (i - 1)], Spike(n), Ramp(n), Ramp(n))]

\* the optional vectors of the full builder
OptionalVectors == {"conta_lc", "smearing_lc", "u1", "u2"}

\* the attribute sets that carry each optional group whole or not at all
RecordNames ==
  { names \in AttrChoices :
      /\ "conta_lc" \in names <=> "smearing_lc" \in names
      /\ "u1" \in names <=> "u2" \in names }

InitRecords ==
  /\ \E names \in RecordNames, flux \in FluxChoices(NSamples),
        flags \in FlagChoices(NSamples) :
       lc = __init__(RecordArray(names, NSamples, flux, flags), <<>>)
  /\ ret = Call("__init__")
  /\ light_curves = <<>>
  /\ jret = NoJoint

\* the caller assigns an optional vector of the light curve (the attributes
\* set by __init__ are plain instance attributes): a vector one sample
\* shorter or longer than the light curve; at most one vector is replaced
SetAttribute ==
  \E a \in OptionalVectors \cap DOMAIN lc.vec :
    \E m \in {Len(lc.vec.bjd_time) - 1, Len(lc.vec.bjd_time) + 1} :
      /\ \A o \in OptionalVectors \cap DOMAIN lc.vec :
           Len(lc.vec[o]) = Len(lc.vec.bjd_time)
      /\ Step(<<[lc EXCEPT !.vec[a] = [i \in 1..m |-> 2 * i]], Call("__setattr__")>>)

NextRecords ==
  \/ SetAttribute
  \/ DesignMatrixAll

SpecRecords == InitRecords /\ [][NextRecords]_vars

\* ------------------------------------------------------------- claims
Unmasked(mask) == {i \in 1..Len(mask) : ~mask[i]}

\* the position of the j-th unmasked sample in time order
NthUnmasked(mask, j) ==
  CHOOSE i \in Unmasked(mask) : Cardinality({k \in Unmasked(mask) : k <= i}) = j

Builders == {"design_matrix", "design_matrix_all"}

\* C1 (mask monotonicity): no step of any masking operation, with any
\* parameters and in any order, changes the length of the mask or turns an
\* entry that is True before the step into False: the mask after the step is
\* a superset of the mask before it.
C1_MaskMonotone ==
  [][ /\ Len(lc'.mask) = Len(lc.mask)
      /\ \A i \in 1..Len(lc.mask) : lc.mask[i] => lc'.mask[i] ]_vars

\* a background clip has run over a sample it does not flag itself and that
\* an earlier operation had excluded: the sample is still excluded
C1_Witness ==
  /\ ret.op = "high_bg_clip"
  /\ ret.status = "ok"
  /\ \E i \in 1..Len(lc.mask) : lc.mask[i] /\ ~(lc.vec.bg[i] > ret.bgmin)
  /\ \E i \in 1..Len(lc.mask) : lc.vec.bg[i] > ret.bgmin

\* the same builder call on the light curve with nothing masked
Unclipped(self, r) ==
  LET all == [self EXCEPT !.mask = [i \in 1..Len(self.mask) |-> FALSE]]
  IN IF r.op = "design_matrix" THEN design_matrix(all, r.norm)[2]
     ELSE design_matrix_all(all, r.harmonics, r.norm)[2]

\* C2 (design-matrix row count): after any sequence of masking operations,
\* the matrix design_matrix or design_matrix_all returns has exactly as many
\* rows as there are samples with mask False, whatever the harmonics count,
\* the optional vector groups and the extra basis vectors, and its row j is
\* the row of the j-th unmasked sample in time order.
C2_RowCount ==
  ret.op \in Builders /\ ret.status = "ok" =>
    /\ ret.X.shape[1] = Cardinality(Unmasked(lc.mask))
    /\ Len(ret.X.data) = Cardinality(Unmasked(lc.mask))
    /\ \A j \in 1..Len(ret.X.data) :
         /\ Len(ret.X.data[j]) = ret.X.shape[2]
         /\ ret.X.data[j] = Unclipped(lc, ret).X.data[NthUnmasked(lc.mask, j)]

\* the full builder has run with harmonics, an optional group and extra basis
\* vectors on a light curve whose mask excludes the first sample but not all
C2_Witness ==
  /\ ret.op = "design_matrix_all"
  /\ ret.status = "ok"
  /\ ret.harmonics >= 1
  /\ hasattr(lc, "conta_lc") /\ hasattr(lc, "smearing_lc")
  /\ lc.extra_basis_vectors # <<>>
  /\ lc.mask[1]
  /\ Unmasked(lc.mask) # {}

\* the unmasked count of every visit, counted sample by sample
Counts(lcs) == [i \in 1..Len(lcs) |-> Cardinality(Unmasked(lcs[i].mask))]

\* the number of rows above visit i's block
Offset(r, i) == SumSeq(SubSeq(r, 1, i - 1))

SameColumns(dms) == \A i, j \in 1..Len(dms) : dms[i].shape[2] = dms[j].shape[2]

Zero == <<0, 1>>

\* C3 (joint block invariant): for N visits with unmasked counts r_1..r_N and
\* per-visit design matrices that all have c columns, combined_design_matrix
\* returns a matrix of shape (sum r_i) x (N c); the entry in row k and column
\* m is the entry of visit i's matrix when row k lies in visit i's row range
\* and column m in visit i's column range, for the same i, and is zero
\* otherwise.  This covers N = 1 and visits with r_i = 0.
C3_JointBlocks ==
  LET dms == jret.design_matrices
      r == Counts(light_curves)
      N == Len(dms)
      c == dms[1].shape[2]
  IN jret.op = "combined_design_matrix" /\ SameColumns(dms) =>
       /\ jret.status = "ok"
       /\ jret.X.shape = <<SumSeq(r), N * c>>
       /\ Len(jret.X.data) = SumSeq(r)
       /\ \A k \in 1..SumSeq(r) :
            /\ Len(jret.X.data[k]) = N * c
            /\ \A i \in 1..N : \A m \in 1..c :
                 jret.X.data[k][(i - 1) * c + m] =
                   IF Offset(r, i) < k /\ k <= Offset(r, i) + r[i]
                   THEN dms[i].data[k - Offset(r, i)][m]
                   ELSE Zero

\* three visits, the first with one sample masked, the middle one fully
\* masked and the last one not at all, have been combined from a caller's
\* matrices of two columns each
C3_Witness ==
  /\ jret.op = "combined_design_matrix"
  /\ jret.status = "ok"
  /\ jret.given
  /\ Len(light_curves) = 3
  /\ Counts(light_curves) = <<1, 0, 2>>
  /\ jret.design_matrices[1].shape[2] = 2

\* C4 (concatenation ordering): the target and the uncertainty that
\* JointLightCurve.regress hands to the solver are the concatenation, in
\* visit list order, of each visit's flux[~mask] and fluxerr[~mask]; row k of
\* the combined design matrix and element k of the target belong to the same
\* unmasked sample of the same visit, in every order of the visit list.
C4_ConcatenationOrder ==
  LET r == Counts(light_curves)
      dms == jret.design_matrices
      c == dms[1].shape[2]
  IN jret.op = "regress" =>
       /\ Len(jret.flux) = SumSeq(r)
       /\ Len(jret.fluxerr) = SumSeq(r)
       /\ Len(jret.X.data) = SumSeq(r)
       /\ \A i \in 1..Len(light_curves) : \A j \in 1..r[i] :
            LET s == NthUnmasked(light_curves[i].mask, j)
                k == Offset(r, i) + j
            IN /\ jret.flux[k] = light_curves[i].vec.flux[s]
               /\ jret.fluxerr[k] = light_curves[i].vec.fluxerr[s]
               /\ \A m \in 1..c :
                    jret.X.data[k][(i - 1) * c + m] = dms[i].data[j][m]
               /\ jret.given =>
                    jret.X.data[k][(i - 1) * c + 1] = <<10 * jret.flux[k] + 1, 1>>

\* a regression over three visits listed out of their numbering (visit 2,
\* visit 3, visit 1), the first sample of the middle one masked
C4_Witness ==
  /\ jret.op = "regress"
  /\ jret.given
  /\ Len(light_curves) = 3
  /\ light_curves[1].vec.flux[1] > light_curves[3].vec.flux[1]
  /\ light_curves[2].mask = <<TRUE, FALSE>>
  /\ Len(jret.flux) >= 3

\* C8 (mismatched column counts): when two or more design matrices are given
\* and one of them has a column count different from the others,
\* combined_design_matrix raises and returns no matrix, whichever visit holds
\* the odd matrix and whatever the unmasked counts, zero included.
C8_MismatchRejected ==
  jret.op = "combined_design_matrix" /\ Len(jret.design_matrices) >= 2
    /\ ~SameColumns(jret.design_matrices) =>
      /\ jret.status # "ok"
      /\ jret.X = NoMatrix

\* the last of three visits holds the odd matrix and has no unmasked sample,
\* and neither has the first
C8_Witness ==
  /\ jret.op = "combined_design_matrix"
  /\ jret.status = "ValueError"
  /\ Len(light_curves) = 3
  /\ jret.design_matrices[3].shape = <<0, 2>>
  /\ jret.design_matrices[1].shape = <<0, 1>>
  /\ jret.design_matrices[2].shape[2] = 1

\* twice the distance from time t to the nearest epoch of the series
\* e2 / 2 + k per, k an integer (e2 is twice the reference epoch)
NearestDist2(t, e2, per) ==
  LET m == (2 * t - e2) % (2 * per)
  IN IF m <= per THEN m ELSE 2 * per - m

\* sample i lies strictly within t14 of the nearest transit (epoch t0) or of
\* the nearest eclipse (epoch t0 + per / 2); never so when t14 is NaN
InSignal(self, i, per, t0, t14) ==
  /\ t14[2] # 0
  /\ \/ NearestDist2(self.vec.bjd_time[i], 2 * t0, per) * t14[2] < 2 * t14[1]
     \/ NearestDist2(self.vec.bjd_time[i], 2 * t0 + per, per) * t14[2] < 2 * t14[1]

\* sample i lies at least t14 away from the nearest transit and eclipse
OutOfSignal(self, i, per, t0, t14) ==
  /\ t14[2] # 0
  /\ NearestDist2(self.vec.bjd_time[i], 2 * t0, per) * t14[2] >= 2 * t14[1]
  /\ NearestDist2(self.vec.bjd_time[i], 2 * t0 + per, per) * t14[2] >= 2 * t14[1]

\* C5 as stated (planetary-signal mask keeps only in-signal samples): a step
\* of mask_planetary_signal newly excludes a sample exactly when it lies
\* outside the window of half-width t14 around both the nearest transit and
\* the nearest eclipse, and leaves unmasked samples inside either window
\* unmasked (stated for the calls whose t14 is a number).
C5_KeepsOnlyInSignal ==
  [][ ret'.op = "mask_planetary_signal" /\ ret'.t14[2] # 0 =>
        \A i \in 1..Len(lc.mask) :
          ~lc.mask[i] =>
            (lc'.mask[i] <=> OutOfSignal(lc, i, ret'.per, ret'.t0, ret'.t14)) ]_vars

\* C5 as amended: a step of mask_planetary_signal newly excludes a sample
\* exactly when it is not at least t14 away from both the nearest transit and
\* the nearest eclipse: for a finite t14 the samples strictly inside either
\* window, and every sample when t14 is NaN.  Unmasked samples outside both
\* windows remain unmasked, and excluded samples remain excluded.
C5_MasksInSignal ==
  [][ ret'.op = "mask_planetary_signal" =>
        \A i \in 1..Len(lc.mask) :
          lc'.mask[i] <=>
            \/ lc.mask[i]
            \/ ret'.t14[2] = 0
            \/ InSignal(lc, i, ret'.per, ret'.t0, ret'.t14) ]_vars

\* the call has excluded a sample inside a window of finite width and has
\* left a sample outside both windows unmasked
C5_Witness ==
  /\ ret.op = "mask_planetary_signal"
  /\ ret.t14[2] # 0
  /\ \E i \in 1..Len(lc.mask) :
       lc.mask[i] /\ InSignal(lc, i, ret.per, ret.t0, ret.t14)
  /\ \E i \in 1..Len(lc.mask) :
       ~lc.mask[i] /\ OutOfSignal(lc, i, ret.per, ret.t0, ret.t14)

\* p - q is an integer, for rationals p and q with positive denominators
IntegerApart(p, q) == (p[1] * q[2] - q[1] * p[2]) % (p[2] * q[2]) = 0

\* cut - 1 <= p < cut
InHalfOpenBelow(p, cut) == ~Gt(<<cut[1] - cut[2], cut[2]>>, p) /\ Gt(cut, p)

\* cut - 1 < p <= cut
InHalfOpenAbove(p, cut) == Gt(p, <<cut[1] - cut[2], cut[2]>>) /\ ~Gt(p, cut)

\* the times folded by the last call: for each folded phase its cut and the
\* unfolded phase (t - epoch) / period
Folded ==
  LET t == lc.vec.bjd_time
      u == BoolIndex(t, Not(lc.mask))
  IN IF ret.op = "mask_planetary_signal"
     THEN {<<ret.phases[i], Half, <<t[i] - ret.t0, ret.per>> >> : i \in 1..Len(t)}
          \cup {<<ret.phases2[i], Half, <<2 * (t[i] - ret.t0) - ret.per, 2 * ret.per>> >> :
                  i \in 1..Len(t)}
     ELSE IF ret.op = "plot_phase_curve"
     THEN {<<ret.phases[j], PlotCut, <<u[j] - ret.t0, ret.per>> >> : j \in 1..Len(u)}
          \cup {<<ret.phases2[j], PlotCut, <<ret.t_fine[j] - ret.t0, ret.per>> >> :
                  j \in 1..Len(ret.t_fine)}
     ELSE {}

\* C6 as stated (phase folding): every phase p folded by
\* mask_planetary_signal (cut 1/2) or plot_phase_curve (cut 19/20), for times
\* before and after the epoch, satisfies cut - 1 <= p < cut and differs from
\* (t - epoch) / period by an integer; a raw phase equal to the cut is mapped
\* into [cut - 1, cut).
C6_PhaseInClosedOpen ==
  \A f \in Folded : InHalfOpenBelow(f[1], f[2]) /\ IntegerApart(f[1], f[3])

\* C6 as amended: every folded phase p satisfies cut - 1 < p <= cut and
\* differs from (t - epoch) / period by an integer (floor modulo, also for
\* t < epoch); only raw phases strictly greater than the cut are lowered by
\* one, so a raw phase equal to the cut stays at the cut.
C6_PhaseInOpenClosed ==
  \A f \in Folded : InHalfOpenAbove(f[1], f[2]) /\ IntegerApart(f[1], f[3])

\* plot_phase_curve has folded a time before the epoch to exactly the cut,
\* and another one to a negative phase
C6_Witness ==
  /\ ret.op = "plot_phase_curve"
  /\ \E f \in Folded : ~Gt(f[1], PlotCut) /\ ~Gt(PlotCut, f[1]) /\ f[3][1] < 0
  /\ \E f \in Folded : f[1][1] < 0

\* the centroid and background vectors under whichever naming the light
\* curve carries
Centroid(self) ==
  IF DRPCentroid \subseteq DOMAIN self.vec
  THEN <<self.vec.centroid_x, self.vec.centroid_y, self.vec.background>>
  ELSE <<self.vec.xc, self.vec.yc, self.vec.bg>>

Available(self, group) == group \subseteq DOMAIN self.vec

\* the vectors a builder call r normalizes when norm is set
NormalizedInputs(self, r) ==
  LET roll == self.vec.roll_angle
      c == Centroid(self)
  IN IF r.op = "design_matrix" THEN {Cos(roll, 1), Sin(roll, 1)}
     ELSE UNION {{Sin(roll, h), Cos(roll, h)} : h \in 1..r.harmonics}
          \cup {c[1], c[2], Times(c[1], c[1]), Times(c[2], c[2]), Times(c[1], c[2]), c[3]}
          \cup (IF Available(self, {"conta_lc", "smearing_lc"})
                THEN {self.vec.conta_lc, self.vec.smearing_lc} ELSE {})
          \cup (IF Available(self, {"u1", "u2"}) THEN {self.vec.u1, self.vec.u2} ELSE {})

IsConstant(v) == \A i, j \in 1..Len(v) : v[i] = v[j]

Finite(X) == \A j \in 1..Len(X.data) : \A m \in 1..Len(X.data[j]) : X.data[j][m][2] # 0

\* C7 (degenerate normalization fails loudly): when norm is set and a vector
\* to be normalized is constant (max = min), design_matrix and
\* design_matrix_all end in the error DegenerateInputError and return no
\* matrix; a matrix they return never holds an inf or NaN entry.
C7_DegenerateFailsLoudly ==
  ret.op \in Builders =>
    /\ (ret.norm /\ \E v \in NormalizedInputs(lc, ret) : IsConstant(v)) =>
         ret.status = "DegenerateInputError" /\ ret.X = NoMatrix
    /\ ret.status = "ok" => Finite(ret.X)

\* the light curve with its centroid and background vectors under the other
\* naming
OtherName(a) ==
  CASE a = "centroid_x" -> "xc" [] a = "centroid_y" -> "yc" [] a = "background" -> "bg"
    [] a = "xc" -> "centroid_x" [] a = "yc" -> "centroid_y" [] a = "bg" -> "background"
    [] OTHER -> a

Renamed(self) ==
  [self EXCEPT !.vec = [a \in {OtherName(b) : b \in DOMAIN self.vec} |->
                          self.vec[OtherName(a)]]]

\* two calls end alike: the same status, mask, matrix and names
SameOutcome(a, b) ==
  /\ a[2].status = b[2].status
  /\ a[1].mask = b[1].mask
  /\ a[2].X = b[2].X
  /\ a[2].names = b[2].names

\* C9 (dual-naming fallback): every step of design_matrix_all,
\* sigma_clip_centroid and high_bg_clip succeeds on a light curve that
\* carries the centroid and background vectors under either naming, and ends
\* as it does on the light curve carrying the same vectors under the other
\* naming.
C9_DualNamingFallback ==
  [][ /\ ret'.op \in {"design_matrix_all", "sigma_clip_centroid", "high_bg_clip"} =>
           ret'.status = "ok"
      /\ ret'.op = "design_matrix_all" =>
           SameOutcome(design_matrix_all(lc, ret'.harmonics, ret'.norm),
                       design_matrix_all(Renamed(lc), ret'.harmonics, ret'.norm))
      /\ ret'.op = "sigma_clip_centroid" =>
           SameOutcome(sigma_clip_centroid(lc, ret'.sigma2),
                       sigma_clip_centroid(Renamed(lc), ret'.sigma2))
      /\ ret'.op = "high_bg_clip" =>
           SameOutcome(high_bg_clip(lc, ret'.bgmin),
                       high_bg_clip(Renamed(lc), ret'.bgmin)) ]_vars

\* the columns the full builder is to return, each with its name, for H
\* harmonics, the optional groups included or not, and the extra vectors
Layout(self, H, norm, conta, us) ==
  LET roll == self.vec.roll_angle
      c == Centroid(self)
      E == self.extra_basis_vectors
  IN << <<"ones", Ones(Len(self.vec.bjd_time))>> >>
     \o Flatten([h \in 1..H |->
                   << <<"sin" \o ToString(h), Col(Sin(roll, h), norm)>>,
                      <<"cos" \o ToString(h), Col(Cos(roll, h), norm)>> >>])
     \o << <<"xc", Col(c[1], norm)>>, <<"yc", Col(c[2], norm)>>,
           <<"x2", Col(Times(c[1], c[1]), norm)>>, <<"y2", Col(Times(c[2], c[2]), norm)>>,
           <<"xy", Col(Times(c[1], c[2]), norm)>>, <<"bg", Col(c[3], norm)>> >>
     \o (IF conta THEN << <<"contamination", Col(self.vec.conta_lc, norm)>>,
                          <<"smearing", Col(self.vec.smearing_lc, norm)>> >>
         ELSE <<>>)
     \o (IF us THEN << <<"u1", Col(self.vec.u1, norm)>>, <<"u2", Col(self.vec.u2, norm)>> >>
         ELSE <<>>)
     \o [k \in 1..Len(E) |-> <<"extra" \o ToString(k), Raw(E[k])>>]

\* the returned names and columns are those of the layout, in its order
HasLayout(r, self, layout) ==
  /\ r.names = [m \in 1..Len(layout) |-> layout[m][1]]
  /\ r.X.shape[2] = Len(layout)
  /\ \A m \in 1..Len(layout) :
       [j \in 1..Len(r.X.data) |-> r.X.data[j][m]] = BoolIndex(layout[m][2], Not(self.mask))

\* C10 as stated (full-builder column layout): design_matrix_all returns the
\* columns [ones; sin_h, cos_h for h = 1..H; xc, yc, x2, y2, xy, bg;
\* contamination and smearing if available, otherwise u1 and u2 if
\* available; extra_1..extra_K], with one name per column in that order; the
\* calibration columns appear only when the contamination group is absent.
C10_LayoutEitherGroup ==
  ret.op = "design_matrix_all" /\ ret.status = "ok" =>
    LET conta == Available(lc, {"conta_lc", "smearing_lc"})
    IN HasLayout(ret, lc,
                 Layout(lc, ret.harmonics, ret.norm, conta,
                        ~conta /\ Available(lc, {"u1", "u2"})))

\* C10 as amended: design_matrix_all returns the columns [ones; sin_h, cos_h
\* for h = 1..H; xc, yc, x2, y2, xy, bg; contamination and smearing if
\* available; u1 and u2 if available, also when contamination and smearing
\* are included; extra_1..extra_K], with one name per column in that order.
C10_LayoutBothGroups ==
  ret.op = "design_matrix_all" /\ ret.status = "ok" =>
    HasLayout(ret, lc,
              Layout(lc, ret.harmonics, ret.norm,
                     Available(lc, {"conta_lc", "smearing_lc"}),
                     Available(lc, {"u1", "u2"})))

\* the full builder has run with a harmonic and an extra basis vector on a
\* light curve that has both optional groups, a varying roll angle and one
\* masked sample
C10_Witness ==
  /\ ret.op = "design_matrix_all"
  /\ ret.status = "ok"
  /\ ret.harmonics >= 1
  /\ Available(lc, {"conta_lc", "smearing_lc", "u1", "u2"})
  /\ lc.extra_basis_vectors # <<>>
  /\ ~IsConstant(lc.vec.roll_angle)
  /\ \E i \in 1..Len(lc.mask) : lc.mask[i]
  /\ Len(ret.names) = 11 + 2 * ret.harmonics + Len(lc.extra_basis_vectors)

\* C11 (default mask at construction): the mask entry of sample i of a newly
\* constructed light curve is True if and only if flux[i] is NaN, or the
\* light curve has a status vector and status[i] is set, or it has an event
\* vector and event[i] is set; for each of the four availability
\* combinations of the status and event vectors.
C11_DefaultMask ==
  ret.op = "__init__" =>
    \A i \in 1..Len(lc.vec.flux) :
      lc.mask[i] <=>
        \/ lc.vec.flux[i] = NaN
        \/ "status" \in DOMAIN lc.vec /\ lc.vec.status[i] # 0
        \/ "event" \in DOMAIN lc.vec /\ lc.vec.event[i] # 0

\* C12 (no swallowed precondition failures in the full builder): when an
\* optional vector present on the light curve has a length other than the
\* sample count, design_matrix_all ends in the error PreconditionError and
\* returns no matrix; the columns of an optional group are left out of a
\* returned matrix only when the group's vectors are absent.
C12_NoSwallowedFailures ==
  ret.op = "design_matrix_all" =>
    /\ (\E a \in OptionalVectors \cap DOMAIN lc.vec :
          Len(lc.vec[a]) # Len(lc.vec.bjd_time)) =>
         ret.status = "PreconditionError" /\ ret.X = NoMatrix
    /\ ret.status = "ok" =>
         /\ Available(lc, {"conta_lc", "smearing_lc"}) =>
              {"contamination", "smearing"} \subseteq Range(ret.names)
         /\ Available(lc, {"u1", "u2"}) => {"u1", "u2"} \subseteq Range(ret.names)

\* C13 (flux sigma-clip acts only on unmasked samples): every step of
\* sigma_clip_flux hands the clipper flux[~mask] and nothing else, sets the
\* mask entry of the j-th unmasked sample (in time order) to True exactly
\* when the clipper flags element j, leaves the entries of the samples
\* masked before the call as they are, and changes no vector of the light
\* curve (flux and fluxerr included).
C13_ClipOnlyUnmasked ==
  [][ ret'.op = "sigma_clip_flux" =>
        /\ ret'.clipped = BoolIndex(lc.vec.flux, Not(lc.mask))
        /\ Len(ret'.clip) = Len(ret'.clipped)
        /\ Len(lc'.mask) = Len(lc.mask)
        /\ \A j \in 1..Len(ret'.clip) :
             lc'.mask[NthUnmasked(lc.mask, j)] = ret'.clip[j]
        /\ \A i \in 1..Len(lc.mask) : lc.mask[i] => lc'.mask[i]
        /\ lc'.vec = lc.vec
        /\ lc'.extra_basis_vectors = lc.extra_basis_vectors ]_vars

\* the clipper has been given fewer samples than the light curve has, the
\* first sample being masked before the call, and has flagged the first of
\* the samples it was given and not the second
C13_Witness ==
  /\ ret.op = "sigma_clip_flux"
  /\ Len(ret.clipped) = Len(lc.mask) - 1
  /\ ret.clipped[1] = lc.vec.flux[2]
  /\ ret.clip[1]
  /\ ~ret.clip[2]
  /\ lc.mask[2]
  /\ ~lc.mask[3]

====
